---- MODULE Spec2Model ----
(***************************************************************************)
(* A model of index.js: the latency graph built by parse, the path-sum     *)
(* evaluator getLatency, and the depth-first enumerator find / recurse     *)
(* driven by a three-way predicate.  The recursion of recurse is unfolded  *)
(* into an explicit stack of activation frames, one action per iteration   *)
(* of its for-loop and one per return.  JavaScript objects are modelled as *)
(* lists of own properties in creation order; arrays live in a heap so     *)
(* that sharing and copying (startPath.slice(0)) are visible.              *)
(***************************************************************************)
EXTENDS Integers, Sequences, FiniteSets, TLC

----------------------------------------------------------------------------
(* Program constants *)

STOP == -1
CONTINUE == 0
INCLUDE == 1

\* Number.POSITIVE_INFINITY, the initial running minimum of the shortest-trace
\* predicates; compared only through GreaterOrEqual below.
Infinity == -1

NoSuchTrace == [t |-> "string", v |-> 0, s |-> "NO SUCH TRACE"]

----------------------------------------------------------------------------
(* Bounds of the model *)

MaxRecords == 3     \* trace records in a generated input
MaxWeight == 2      \* largest latency in a generated input
MaxDepth == 12      \* activation frames the call stack holds
MaxChoices == 2     \* calls an arbitrary predicate answers freely
MaxHops == 2        \* hop limit of the generated hop-bounded predicates
MaxLatency == 2     \* latency limit of the generated latency-bounded predicates
MaxPathLen == 3     \* nodes in a path handed to getLatency
MaxRuns == 2        \* calls of find in one run of the test file

----------------------------------------------------------------------------
(* JavaScript objects *)

\* The property names every object literal inherits from Object.prototype
\* (a sample: constructor, toString; hasOwnProperty, valueOf, ... behave alike).
ObjectPrototypeKeys == {"constructor", "toString"}

Digits == <<"0", "1", "2", "3", "4", "5", "6", "7", "8", "9">>

\* A single-character key that is a canonical array index ("0" .. "9").
IsArrayIndex(k) == \E d \in 1..Len(Digits) : Digits[d] = k

EmptyObject == <<>>

HasOwn(obj, k) == \E i \in 1..Len(obj) : obj[i].key = k

OwnIndex(obj, k) == CHOOSE i \in 1..Len(obj) : obj[i].key = k

OwnValue(obj, k) == obj[OwnIndex(obj, k)].value

\* obj[k] = v: an existing property keeps its place, a new one is created last.
SetProp(obj, k, v) ==
    IF HasOwn(obj, k)
    THEN [obj EXCEPT ![OwnIndex(obj, k)] = [key |-> k, value |-> v]]
    ELSE Append(obj, [key |-> k, value |-> v])

RECURSIVE IndexEntries(_, _)
IndexEntries(obj, d) ==
    IF d > Len(Digits) THEN <<>>
    ELSE (IF HasOwn(obj, Digits[d])
          THEN <<[key |-> Digits[d], value |-> OwnValue(obj, Digits[d])]>>
          ELSE <<>>) \o IndexEntries(obj, d + 1)

NotArrayIndexEntry(e) == ~IsArrayIndex(e.key)

\* Object.entries(obj): own enumerable properties, array-index keys first in
\* ascending numeric order, then the other string keys in creation order.
ObjectEntries(obj) == IndexEntries(obj, 1) \o SelectSeq(obj, NotArrayIndexEntry)

----------------------------------------------------------------------------
(* parse *)

Keys == {"A", "B", "1"}

Weights == 0..MaxWeight

\* A trace record "<start><end><latency>", e.g. "AB5", as its three fields.
Records == Keys \X Keys \X Weights

BoundedSeq(S, n) == UNION {[1..k -> S] : k \in 0..n}

ReferenceData ==
    << <<"A", "B", 5>>, <<"A", "D", 5>>, <<"A", "E", 7>>, <<"B", "C", 4>>,
       <<"C", "D", 8>>, <<"C", "E", 2>>, <<"D", "C", 8>>, <<"D", "E", 6>>,
       <<"E", "B", 3>> >>

DataInputs == BoundedSeq(Records, MaxRecords) \cup {ReferenceData}

\* The outer object of the graph is only ever indexed by key, never
\* enumerated: it is modelled as a function from its own keys to the neighbour
\* objects, which keep their properties in creation order.
EmptyGraph == [k \in {} |-> EmptyObject]

HasNode(g, k) == k \in DOMAIN g

RECURSIVE parseLoop(_, _)
parseLoop(results, data) ==
    IF data = <<>> THEN results
    ELSE LET trace == Head(data)
             start_ == trace[1]
             end_ == trace[2]
             latency == trace[3]
             r1 == IF ~HasNode(results, start_)
                   THEN (start_ :> EmptyObject) @@ results
                   ELSE results
             r2 == [r1 EXCEPT ![start_] = SetProp(@, end_, latency)]
         IN parseLoop(r2, Tail(data))

parse(data) == parseLoop(EmptyGraph, data)

ReferenceGraph == parse(ReferenceData)

----------------------------------------------------------------------------
(* Property lookup on the graph *)

\* graph[startKey] || {} : the node's own neighbour object; a function inherited
\* from Object.prototype (no own enumerable properties); or {}.
Parent(g, startKey) ==
    IF HasNode(g, startKey) THEN [t |-> "object", props |-> g[startKey]]
    ELSE IF startKey \in ObjectPrototypeKeys THEN [t |-> "function", props |-> EmptyObject]
    ELSE [t |-> "object", props |-> EmptyObject]

\* parent[end]: an own latency, a function found on the prototype chain, or
\* undefined.
Lookup(parent, endKey) ==
    IF HasOwn(parent.props, endKey)
    THEN [t |-> "number", v |-> OwnValue(parent.props, endKey), s |-> ""]
    ELSE IF endKey \in ObjectPrototypeKeys THEN [t |-> "function", v |-> 0, s |-> ""]
    ELSE [t |-> "undefined", v |-> 0, s |-> ""]

\* latency == null
IsNullish(val) == val.t = "undefined"

\* result += latency: numbers add; anything else concatenates into a string.
Plus(result, latency) ==
    IF result.t = "number" /\ latency.t = "number"
    THEN [t |-> "number", v |-> result.v + latency.v, s |-> ""]
    ELSE [t |-> "string", v |-> 0, s |-> "concatenation"]

----------------------------------------------------------------------------
(* getLatency *)

RECURSIVE getLatencyLoop(_, _, _, _)
getLatencyLoop(g, path, i, result) ==
    IF ~(i < Len(path)) THEN result
    ELSE LET start_ == path[i]
             end_ == path[i + 1]
             parent == Parent(g, start_)
             latency == Lookup(parent, end_)
         IN IF IsNullish(latency) THEN NoSuchTrace
            ELSE getLatencyLoop(g, path, i + 1, Plus(result, latency))

getLatency(g, path) == getLatencyLoop(g, path, 1, [t |-> "number", v |-> 0, s |-> ""])

----------------------------------------------------------------------------
(* The predicates the tests hand to find *)

NoPolicy == [kind |-> "none", target |-> "", limit |-> 0, exact |-> FALSE]

Policy(kind, target, limit, exact) ==
    [kind |-> kind, target |-> target, limit |-> limit, exact |-> exact]

\* latency >= min, with min possibly Number.POSITIVE_INFINITY
GreaterOrEqual(latency, m) == m # Infinity /\ latency >= m

\* "a maximum of <limit> hops": paths longer than limit + 1 have more hops.
maxHopsPredicate(p, path, endKey) ==
    IF Len(path) > p.limit + 1 THEN STOP
    ELSE IF endKey = p.target THEN INCLUDE
    ELSE CONTINUE

\* "exactly <limit> hops"
exactHopsPredicate(p, path, endKey) ==
    IF Len(path) > p.limit + 1 THEN STOP
    ELSE IF Len(path) = p.limit + 1 /\ endKey = p.target THEN INCLUDE
    ELSE CONTINUE

\* "an average latency of less than <limit>"
maxLatencyPredicate(p, latency, endKey) ==
    IF latency >= p.limit THEN STOP
    ELSE IF endKey = p.target THEN INCLUDE
    ELSE CONTINUE

\* "the shortest trace (in terms of latency)": prunes on the running minimum m.
shortestPredicate(p, latency, endKey, m) ==
    IF GreaterOrEqual(latency, m) THEN STOP
    ELSE IF endKey = p.target THEN INCLUDE
    ELSE CONTINUE

\* The statuses predicate p may return for a candidate.  An "any" predicate is
\* an arbitrary caller policy: it answers freely for its first MaxChoices
\* calls and prunes afterwards.
Statuses(p, path, latency, endKey, m, n) ==
    CASE p.kind = "maxHops" -> {IF p.exact THEN exactHopsPredicate(p, path, endKey)
                                ELSE maxHopsPredicate(p, path, endKey)}
      [] p.kind = "maxLatency" -> {maxLatencyPredicate(p, latency, endKey)}
      [] p.kind = "shortest" -> {shortestPredicate(p, latency, endKey, m)}
      [] p.kind = "continue" -> {CONTINUE}
      [] p.kind = "include" -> {INCLUDE}
      [] p.kind = "any" -> IF n < MaxChoices THEN {STOP, CONTINUE, INCLUDE} ELSE {STOP}

\* min = latency on acceptance by the shortest-trace predicate
MinAfter(p, status, latency, m) ==
    IF p.kind = "shortest" /\ status = INCLUDE THEN latency ELSE m

----------------------------------------------------------------------------
(* find / recurse *)

VARIABLES
    graph,      \* the module-level graph, parse('./data.csv')
    pc,         \* "idle" | "running" | "returned" | "thrown"
    start,      \* startKey of the current call of find
    policy,     \* predicate of the current call of find
    stack,      \* activation frames of recurse, innermost last
    heap,       \* the path arrays allocated by the current call
    results,    \* the results array of the current call
    calls,      \* every call of the predicate so far, with what it returned
    min,        \* the predicate's captured running minimum
    choices,    \* calls an "any" predicate has answered
    returned,   \* what each completed call of find returned
    sumArg,     \* the path last handed to getLatency
    sumResult   \* what getLatency returned for it

vars == <<graph, pc, start, policy, stack, heap, results, calls, min, choices,
          returned, sumArg, sumResult>>

findVars == <<pc, start, policy, stack, heap, results, calls, min, choices, returned>>

NoResult == [t |-> "none", v |-> 0, s |-> ""]

Init ==
    /\ \E data \in DataInputs : graph = parse(data)
    /\ pc = "idle"
    /\ start = ""
    /\ policy = NoPolicy
    /\ stack = <<>>
    /\ heap = <<>>
    /\ results = <<>>
    /\ calls = <<>>
    /\ min = Infinity
    /\ choices = 0
    /\ returned = <<>>
    /\ sumArg = <<>>
    /\ sumResult = NoResult

SliceShared(h, ref) == [heap |-> h, ref |-> ref]

\* startPath.slice(0): a fresh array holding a copy of the elements.
Slice(h, ref) == [heap |-> Append(h, h[ref]), ref |-> Len(h) + 1]

\* path.push(endKey)
Push(h, ref, endKey) == [h EXCEPT ![ref] = Append(@, endKey)]

CandidateLatencyOfEdge(startLatency, meanLatency) == meanLatency

\* startLatency + meanLatency
CandidateLatency(startLatency, meanLatency) == startLatency + meanLatency

RecursesAlways(status) == TRUE

RecursesOnlyContinue(status) == status = CONTINUE

\* if (status === STOP) continue;  -- anything else reaches the recursive call
Recurses(status) == status # STOP

IncludesUnlessStop(status) == status # STOP

\* if (status === INCLUDE) results.push(result);
Includes(status) == status = INCLUDE

AdvanceBreakOnStop(status, i, n) == IF status = STOP THEN n + 1 ELSE i + 1

\* The for-of loop moves to the next entry, after a continue as after a
\* completed body (n is the number of entries).
Advance(status, i, n) == i + 1

KeepResults(previous) == previous

\* The results array a call of find starts from: the literal [] .
NewResults(previous) == <<>>

Frame(startKey, startPath, startLatency) ==
    [startKey |-> startKey, startPath |-> startPath, startLatency |-> startLatency, i |-> 1]

\* The values a results array holds: each path array read from the heap.
Deref(h, rs) == [k \in 1..Len(rs) |-> [path |-> h[rs[k].path], latency |-> rs[k].latency]]

Top == stack[Len(stack)]

TopEntries == ObjectEntries(Parent(graph, Top.startKey).props)

\* find(graph, startKey, predicate)
find(startKey, predicate) ==
    /\ start' = startKey
    /\ policy' = predicate
    /\ heap' = Append(heap, <<startKey>>)
    /\ stack' = <<Frame(startKey, Len(heap) + 1, 0)>>
    /\ results' = NewResults(results)
    /\ calls' = <<>>
    /\ min' = Infinity
    /\ choices' = 0
    /\ pc' = "running"
    /\ UNCHANGED <<graph, returned, sumArg, sumResult>>

\* One iteration of the for-loop of the innermost recurse: build the candidate,
\* ask the predicate, and skip, or (include and) call recurse.  overflow says
\* whether the recursive call finds the call stack full (a RangeError).
Iteration(overflow) ==
    /\ stack # <<>>
    /\ Top.i <= Len(TopEntries)
    /\ LET f == Top
           endKey == TopEntries[f.i].key
           meanLatency == TopEntries[f.i].value
           latency == CandidateLatency(f.startLatency, meanLatency)
           sl == Slice(heap, f.startPath)
           path == sl.ref
           h2 == Push(sl.heap, path, endKey)
           result == [path |-> path, latency |-> latency]
           IN \E status \in Statuses(policy, h2[path], latency, endKey, min, choices) :
            /\ overflow = (Recurses(status) /\ Len(stack) >= MaxDepth)
            /\ heap' = h2
            /\ calls' = Append(calls, [path |-> h2[path], latency |-> latency,
                                       startKey |-> f.startKey, endKey |-> endKey,
                                       status |-> status])
            /\ min' = MinAfter(policy, status, latency, min)
            /\ choices' = IF policy.kind = "any" THEN choices + 1 ELSE choices
            /\ results' = IF Includes(status) THEN Append(results, result) ELSE results
            /\ LET rest == [stack EXCEPT
                                ![Len(stack)].i = Advance(status, f.i, Len(TopEntries))]
               IN stack' = IF Recurses(status) /\ ~overflow
                           THEN Append(rest, Frame(endKey, path, latency))
                           ELSE rest
            /\ pc' = IF overflow THEN "thrown" ELSE "running"
    /\ UNCHANGED <<graph, start, policy, returned, sumArg, sumResult>>

Step ==
    /\ pc = "running"
    /\ Iteration(FALSE)

StackExhausted ==
    /\ pc = "running"
    /\ Iteration(TRUE)

\* return results: the innermost recurse has run out of entries; the outermost
\* one returns to find, which returns to its caller.
Return ==
    /\ pc = "running"
    /\ stack # <<>>
    /\ Top.i > Len(TopEntries)
    /\ stack' = SubSeq(stack, 1, Len(stack) - 1)
    /\ IF Len(stack) = 1
       THEN /\ pc' = "returned"
            /\ returned' = Append(returned, Deref(heap, results))
       ELSE UNCHANGED <<pc, returned>>
    /\ UNCHANGED <<graph, start, policy, heap, results, calls, min, choices,
                   sumArg, sumResult>>

----------------------------------------------------------------------------
(* The calls the test file makes *)

\* Start nodes: the keys of the inputs, and for the arbitrary predicates also
\* a name no graph holds and a name Object.prototype holds.
Starts == Keys

OddStarts == {"Z", "constructor"}

Targets == {"A", "1"}

BoundedPolicies ==
    {Policy("maxHops", t, MaxHops, e) : t \in Targets, e \in BOOLEAN}
    \cup {Policy("maxLatency", t, MaxLatency, FALSE) : t \in Targets}

ShortestPolicies == {Policy("shortest", t, 0, FALSE) : t \in Targets}

AnyPolicies == {Policy(k, "", 0, FALSE) : k \in {"any", "continue", "include"}}

\* The queries of the tests on the reference graph.
BoundedTests ==
    { <<"C", Policy("maxHops", "C", 3, FALSE)>>,
      <<"A", Policy("maxHops", "C", 4, TRUE)>>,
      <<"C", Policy("maxLatency", "C", 30, FALSE)>> }

ShortestTests == { <<"A", Policy("shortest", "C", 0, FALSE)>> }

Queries(starts, policies, tests) ==
    {<<s, p>> : s \in starts, p \in policies}
    \cup (IF graph = ReferenceGraph THEN tests ELSE {})

FindAny ==
    /\ pc = "idle"
    /\ \E q \in Queries(Starts \cup OddStarts, AnyPolicies, {}) : find(q[1], q[2])

FindBounded ==
    /\ pc = "idle"
    /\ \E q \in Queries(Starts, BoundedPolicies, BoundedTests) : find(q[1], q[2])

FindShortest ==
    /\ pc = "idle"
    /\ \E q \in Queries(Starts, ShortestPolicies, ShortestTests) : find(q[1], q[2])

\* A test that runs its query a second time, its predicate's state fresh.
FindAgain ==
    /\ pc = "returned"
    /\ Len(returned) < MaxRuns
    /\ find(start, policy)

PathKeys == Keys \cup {"constructor"}

\* The traces whose latency the tests ask for on the reference graph.
LatencyTests ==
    { <<"A", "B", "C">>, <<"A", "D">>, <<"A", "D", "C">>,
      <<"A", "E", "B", "C", "D">>, <<"A", "E", "D">> }

\* A test evaluates one explicit path.
GetLatency ==
    /\ sumResult = NoResult
    /\ \E path \in BoundedSeq(PathKeys, MaxPathLen)
                      \cup (IF graph = ReferenceGraph THEN LatencyTests ELSE {}) :
         /\ sumArg' = path
         /\ sumResult' = getLatency(graph, path)
    /\ UNCHANGED <<graph>>
    /\ UNCHANGED findVars

Engine == Step \/ StackExhausted \/ Return

Next == FindAny \/ Step \/ StackExhausted \/ Return

Spec == Init /\ [][Next]_vars

NextBounded == FindBounded \/ Step \/ StackExhausted \/ Return

SpecBounded == Init /\ [][NextBounded]_vars

NextShortest == FindShortest \/ Step \/ StackExhausted \/ Return

SpecShortest == Init /\ [][NextShortest]_vars

NextRerun == FindShortest \/ FindAgain \/ Step \/ StackExhausted \/ Return

SpecRerun == Init /\ [][NextRerun]_vars

SpecSum == Init /\ [][GetLatency]_vars

----------------------------------------------------------------------------
(* Graph notions the properties are stated in, defined on the edges alone *)

Edge(g, a, b) == HasNode(g, a) /\ HasOwn(g[a], b)

Weight(g, a, b) == OwnValue(g[a], b)

Successors(g, a) == IF HasNode(g, a) THEN {g[a][i].key : i \in 1..Len(g[a])} ELSE {}

Nodes(g) == DOMAIN g \cup UNION {Successors(g, a) : a \in DOMAIN g}

Last(p) == p[Len(p)]

Front(p) == SubSeq(p, 1, Len(p) - 1)

IsPrefix(p, q) == Len(p) <= Len(q) /\ SubSeq(q, 1, Len(p)) = p

IsProperPrefix(p, q) == Len(p) < Len(q) /\ SubSeq(q, 1, Len(p)) = p

\* A path of at least one hop along edges of g.
IsWalk(g, p) == Len(p) >= 2 /\ \A i \in 1..(Len(p) - 1) : Edge(g, p[i], p[i + 1])

RECURSIVE WalkWeight(_, _)
WalkWeight(g, p) ==
    IF Len(p) < 2 THEN 0
    ELSE WalkWeight(g, Front(p)) + Weight(g, p[Len(p) - 1], p[Len(p)])

Extensions(g, W) == UNION {{Append(p, b) : b \in Successors(g, Last(p))} : p \in W}

\* The walks of exactly k hops from s.
RECURSIVE WalksOfHops(_, _, _)
WalksOfHops(g, s, k) ==
    IF k = 0 THEN {<<s>>} ELSE Extensions(g, WalksOfHops(g, s, k - 1))

\* The walks of 1 .. n hops from s.
WalksWithin(g, s, n) == UNION {WalksOfHops(g, s, k) : k \in 1..n}

\* The creation-order position of the edge a -> b among a's edges.
InsertionIndex(g, a, b) == OwnIndex(g[a], b)

Candidate(c) == [path |-> c.path, latency |-> c.latency]

IsIncluded(c) == c.status = INCLUDE

CandidatesOf(cs) == [k \in 1..Len(cs) |-> Candidate(cs[k])]

----------------------------------------------------------------------------
(* C1: whenever the predicate returns STOP for a candidate, the candidate is
   not among the results, no path extending it is handed to the predicate or
   put among the results, and the walk goes on with the next edge of the node
   the candidate was extended from. *)
C1_StopPrunes ==
    \A i \in 1..Len(calls) :
        calls[i].status = STOP =>
          LET P == calls[i].path
              siblings == ObjectEntries(Parent(graph, calls[i].startKey).props)
              k == CHOOSE n \in 1..Len(siblings) : siblings[n].key = calls[i].endKey
          IN /\ \A r \in 1..Len(results) : ~IsPrefix(P, heap[results[r].path])
             /\ \A j \in 1..Len(calls) : ~IsProperPrefix(P, calls[j].path)
             /\ k < Len(siblings) =>
                  IF i < Len(calls)
                  THEN calls[i + 1].path = Append(Front(P), siblings[k + 1].key)
                  ELSE pc = "running" =>
                         /\ heap[Top.startPath] = Front(P)
                         /\ Top.i = k + 1

\* A STOP on a candidate whose end node has edges, followed by the call for
\* the next sibling edge.
C1_Witness ==
    \E i \in 1..(Len(calls) - 1) :
        /\ calls[i].status = STOP
        /\ Successors(graph, calls[i].endKey) # {}
        /\ Front(calls[i + 1].path) = Front(calls[i].path)

(* C2: the results are exactly the candidates the predicate answered INCLUDE
   for, one per answer and in the order of the answers; and once find has
   returned, every candidate answered INCLUDE or CONTINUE has had each
   extension by an edge of its end node handed to the predicate exactly once. *)
C2_IncludeAndExplore ==
    /\ Deref(heap, results) = CandidatesOf(SelectSeq(calls, IsIncluded))
    /\ pc = "returned" =>
         \A i \in 1..Len(calls) :
            calls[i].status # STOP =>
              \A b \in Successors(graph, calls[i].endKey) :
                 Cardinality({j \in 1..Len(calls) :
                                /\ calls[j].path = Append(calls[i].path, b)
                                /\ calls[j].startKey = calls[i].endKey}) = 1

\* A completed call in which an included candidate was extended further and
\* another candidate was answered CONTINUE.
C2_Witness ==
    /\ pc = "returned"
    /\ \E i, j \in 1..Len(calls) :
         /\ calls[i].status = INCLUDE
         /\ IsProperPrefix(calls[i].path, calls[j].path)
    /\ \E i \in 1..Len(calls) : calls[i].status = CONTINUE
    /\ \E i \in 1..Len(calls) : calls[i].status = STOP

WellFormed(path, latency) ==
    /\ Len(path) >= 2
    /\ path[1] = start
    /\ IsWalk(graph, path)
    /\ latency = WalkWeight(graph, path)

C10_Inv ==
    /\ \A i \in 1..Len(calls) :
         /\ WellFormed(calls[i].path, calls[i].latency)
         /\ calls[i].startKey = calls[i].path[Len(calls[i].path) - 1]
         /\ calls[i].endKey = Last(calls[i].path)
    /\ \A r \in 1..Len(results) :
         WellFormed(heap[results[r].path], results[r].latency)

C10_Kept ==
    pc = "running" =>
      \A r \in 1..Len(results) :
         /\ r <= Len(results')
         /\ results'[r] = results[r]
         /\ heap'[results[r].path] = heap[results[r].path]

(* C10: at every point of a run of find, every candidate handed to the
   predicate and every accumulated result has a path that begins with the
   start node, has at least two nodes and follows edges of the graph, with
   latency the sum of those edges' weights; the predicate's two node
   arguments are the last two nodes of the candidate; and no step of the
   engine changes the path or latency of a result already included. *)
C10_PathsWellFormed == []C10_Inv /\ [][C10_Kept]_vars

\* A result was included and the walk has since extended its path.
C10_Witness ==
    /\ results # <<>>
    /\ \E j \in 1..Len(calls) : IsProperPrefix(heap[results[1].path], calls[j].path)

----------------------------------------------------------------------------
Returned == Deref(heap, results)

Trace(path, latency) == [path |-> path, latency |-> latency]

(* C3: results come in depth-first pre-order discovery order, the edges of
   every node being tried in the order in which they were first inserted
   when the graph was built, whatever the node identifiers are, and the whole
   subtree below a candidate being explored before the next sibling edge; on
   the reference graph the exactly-4-hops query from A to C returns
   A-B-C-D-C, A-D-C-D-C, A-D-E-B-C in that order. *)
C3_InsertionOrder ==
    /\ \A i, j \in 1..Len(calls) :
          (i < j /\ Front(calls[i].path) = Front(calls[j].path)) =>
             InsertionIndex(graph, calls[i].startKey, calls[i].endKey)
               < InsertionIndex(graph, calls[j].startKey, calls[j].endKey)
    /\ \A i, j, k \in 1..Len(calls) :
          (i < j /\ j < k /\ IsPrefix(calls[i].path, calls[k].path)) =>
             IsPrefix(calls[i].path, calls[j].path)
    /\ Returned = CandidatesOf(SelectSeq(calls, IsIncluded))
    /\ (pc = "returned" /\ graph = ReferenceGraph /\ start = "A"
          /\ policy = Policy("maxHops", "C", 4, TRUE)) =>
         [k \in 1..Len(Returned) |-> Returned[k].path] =
            << <<"A", "B", "C", "D", "C">>, <<"A", "D", "C", "D", "C">>,
               <<"A", "D", "E", "B", "C">> >>

----------------------------------------------------------------------------
AllPositive(g) == \A a, b \in Nodes(g) : Edge(g, a, b) => Weight(g, a, b) > 0

\* The walks from a frontier W on whose latency stays below limit (on a graph
\* of positive weights).
RECURSIVE CheapWalksFrom(_, _, _)
CheapWalksFrom(g, W, limit) ==
    IF W = {} THEN {}
    ELSE W \cup CheapWalksFrom(g, {q \in Extensions(g, W) : WalkWeight(g, q) < limit}, limit)

CheapWalks(g, s, limit) ==
    CheapWalksFrom(g, {q \in Extensions(g, {<<s>>}) : WalkWeight(g, q) < limit}, limit)

\* The walks from the start node within the predicate's bound.
InBound ==
    IF policy.kind = "maxLatency"
    THEN CheapWalks(graph, start, policy.limit)
    ELSE WalksWithin(graph, start, policy.limit)

\* The in-bound walks that meet the acceptance test.
Accepted ==
    {p \in InBound : /\ Last(p) = policy.target
                     /\ policy.exact => Len(p) = policy.limit + 1}

\* A run of the engine ends when a step is possible until find has returned
\* or thrown, each step raises a progress count, and the count is bounded.  The
\* count takes the calls of the predicate made twice, less the frames on the
\* stack; with at most n calls in all it never exceeds 2 * n.
Progress == 2 * Len(calls) - Len(stack)

Advances == pc = "running" => Progress' > Progress

Terminates(n) ==
    /\ Len(calls) <= n
    /\ pc = "running" => ENABLED Engine

\* The candidates of a bounded query: the one-edge extensions of the start
\* node and of the in-bound walks.
BoundedCandidates == Cardinality(Extensions(graph, InBound \cup {<<start>>}))

BoundGrowsAlongPaths ==
    \/ policy.kind = "maxHops"
    \/ policy.kind = "maxLatency" /\ AllPositive(graph)

C4_Inv ==
    BoundGrowsAlongPaths =>
      /\ pc # "thrown"
      /\ Terminates(BoundedCandidates)
      /\ pc = "returned" =>
           /\ {Returned[k] : k \in 1..Len(Returned)}
                = {Trace(p, WalkWeight(graph, p)) : p \in Accepted}
           /\ Len(Returned) = Cardinality(Accepted)

C4_Reference ==
    (pc = "returned" /\ graph = ReferenceGraph) =>
      /\ (start = "C" /\ policy = Policy("maxHops", "C", 3, FALSE)) =>
           Returned = << Trace(<<"C", "D", "C">>, 16), Trace(<<"C", "E", "B", "C">>, 9) >>
      /\ (start = "A" /\ policy = Policy("maxHops", "C", 4, TRUE)) =>
           Returned = << Trace(<<"A", "B", "C", "D", "C">>, 25),
                         Trace(<<"A", "D", "C", "D", "C">>, 29),
                         Trace(<<"A", "D", "E", "B", "C">>, 18) >>
      /\ (start = "C" /\ policy = Policy("maxLatency", "C", 30, FALSE)) =>
           Returned = << Trace(<<"C", "D", "C">>, 16),
                         Trace(<<"C", "D", "C", "E", "B", "C">>, 25),
                         Trace(<<"C", "D", "E", "B", "C">>, 21),
                         Trace(<<"C", "E", "B", "C">>, 9),
                         Trace(<<"C", "E", "B", "C", "D", "C">>, 25),
                         Trace(<<"C", "E", "B", "C", "E", "B", "C">>, 18),
                         Trace(<<"C", "E", "B", "C", "E", "B", "C", "E", "B", "C">>, 27) >>

(* C4: with a predicate that answers STOP exactly on the candidates beyond a
   bound that only grows along a path (more than N hops; latency >= L on a
   graph of positive weights), INCLUDE on the in-bound candidates that end at
   the target (at exactly N hops, where asked) and CONTINUE otherwise, find
   terminates and returns every in-bound path of at least one hop from the
   start that meets the acceptance test, each exactly once, and nothing else;
   the three bounded queries of the tests return their 2, 3 and 7 traces. *)
C4_BoundedEnumeration ==
    /\ [](C4_Inv /\ C4_Reference)
    /\ [][Advances]_vars

\* A completed bounded query that returned several traces and pruned a branch.
C4_Witness ==
    /\ pc = "returned"
    /\ BoundGrowsAlongPaths
    /\ graph # ReferenceGraph
    /\ Len(results) >= 2
    /\ \E i \in 1..Len(calls) : calls[i].status = STOP

----------------------------------------------------------------------------
\* The least weight of a walk of at least one hop from s to t, Infinity when
\* there is none.  Weights are not negative, so a lightest walk need not pass
\* a node twice on its way: one of at most as many hops as there are nodes is
\* among the lightest.
LeastWeight(g, s, t) ==
    LET W == {p \in WalksWithin(g, s, Cardinality(Nodes(g) \cup {s})) : Last(p) = t}
    IN IF W = {} THEN Infinity
       ELSE CHOOSE w \in {WalkWeight(g, p) : p \in W} :
                \A p \in W : w <= WalkWeight(g, p)

(* C5: with the shortest-trace predicate (STOP when the candidate's latency is
   >= the running minimum, initially +infinity; otherwise, on a candidate
   ending at the target, set the minimum and INCLUDE; else CONTINUE), whenever
   find returns the running minimum is the least weight over all paths of at
   least one hop from start to target, and the last result returned is a path
   of that weight; on the reference graph from A to C the result is the
   single trace A-B-C of latency 9. *)
C5_ShortestTrace ==
    pc = "returned" =>
      /\ min = LeastWeight(graph, start, policy.target)
      /\ min # Infinity => Returned # <<>>
      /\ Returned # <<>> =>
           LET last == Returned[Len(Returned)]
           IN /\ last.latency = min
              /\ last.path[1] = start
              /\ Last(last.path) = policy.target
              /\ IsWalk(graph, last.path)
              /\ WalkWeight(graph, last.path) = min
      /\ (graph = ReferenceGraph /\ start = "A" /\ policy.target = "C") =>
           Returned = << Trace(<<"A", "B", "C">>, 9) >>

\* A completed query whose minimum was improved after a first acceptance and
\* that pruned a branch.
C5_Witness ==
    /\ pc = "returned"
    /\ Len(Returned) >= 2
    /\ Returned[2].latency < Returned[1].latency
    /\ \E i \in 1..Len(calls) : calls[i].status = STOP

----------------------------------------------------------------------------
AllEdges(g, path) == \A i \in 1..(Len(path) - 1) : Edge(g, path[i], path[i + 1])

(* C6: for every graph and every non-empty path getLatency returns the sum of
   the weights of the consecutive pairs when each pair is an edge (0 for a
   single node; an edge of weight 0 is an edge), and the NO SUCH TRACE value
   as soon as some consecutive pair is no edge, also when a node of the path
   is not in the graph. *)
C6_SumOrNoSuchTrace ==
    (sumResult # NoResult /\ sumArg # <<>>) =>
       IF AllEdges(graph, sumArg)
       THEN sumResult = [t |-> "number", v |-> WalkWeight(graph, sumArg), s |-> ""]
       ELSE sumResult = NoSuchTrace

(* C7: getLatency called with an empty path fails with InvalidPathError; it
   returns neither a number nor the NO SUCH TRACE value. *)
C7_EmptyPathFails ==
    (sumResult # NoResult /\ sumArg = <<>>) => sumResult.t = "InvalidPathError"

----------------------------------------------------------------------------
\* Some cycle can be reached from s: there is a walk from s of as many hops
\* as there are nodes.
CycleReachable(g, s) == WalksOfHops(g, s, Cardinality(Nodes(g) \cup {s})) # {}

AllWalks(g, s) == WalksWithin(g, s, Cardinality(Nodes(g) \cup {s}))

NeverStops == policy.kind \in {"continue", "include"}

C8_Inv ==
    pc # "idle" =>
      /\ Successors(graph, start) = {} => (calls = <<>> /\ results = <<>>)
      /\ ~CycleReachable(graph, start) =>
           /\ pc # "thrown"
           /\ Terminates(Cardinality(AllWalks(graph, start)))
      /\ (CycleReachable(graph, start) /\ NeverStops) => pc # "returned"

(* C8: find terminates exactly when the tree of candidates not below a STOP
   is finite.  Whatever the predicate answers, it terminates when no cycle
   can be reached from the start node (a start node that is unknown or has no
   edges gives an empty result without a call of the predicate); it never
   returns when a cycle can be reached and the predicate never answers STOP:
   the engine bounds neither depth nor cost, the recursion deepens until the
   call stack is full. *)
C8_Termination == []C8_Inv /\ [][Advances]_vars

\* A predicate that never answers STOP on a graph with a reachable cycle: the
\* recursion has filled the call stack.
C8_Witness ==
    /\ pc = "thrown"
    /\ NeverStops
    /\ CycleReachable(graph, start)
    /\ Len(stack) = MaxDepth

----------------------------------------------------------------------------
(* C9: running find twice on the same graph with the same start node and a
   predicate whose captured state is fresh for each call gives two identical
   result sequences (paths, latencies, order), and no step changes the graph. *)
C9_SameResultsAgain ==
    /\ [](\A m, n \in 1..Len(returned) : returned[m] = returned[n])
    /\ [][graph' = graph]_vars

\* Two completed calls whose first returned several traces.
C9_Witness ==
    /\ Len(returned) >= 2
    /\ Len(returned[1]) >= 2

====
